---- MODULE Spec2Model ----
(***************************************************************************)
(* RegionProvider (src/shared/regions/regionProvider.ts) and the           *)
(* user-decision part of TelemetryHelper, as state machines.               *)
(*                                                                         *)
(* A JavaScript Map is a sequence of [key, value] entries in insertion     *)
(* order; a JavaScript array is a sequence; the value `undefined` of a     *)
(* string-typed expression is the string Undefined; an optional object is  *)
(* a sequence of length 0 (undefined) or 1.                                *)
(***************************************************************************)
EXTENDS Integers, Sequences, FiniteSets, TLC

VARIABLES
    regionData,            \* RegionProvider.regionData : Map<string, RegionData>
    loadState,             \* "none" | "pending" | "loaded" | "failed" : the promise of endpointsProvider.load()
    ctorEndpoints,         \* the Endpoints the constructor ingested
    loadedEndpoints,       \* the Endpoints endpointsProvider.load() resolved with
    fired,                 \* number of onDidChangeEmitter.fire() calls
    seenAtFire,            \* regionData as an onDidChange listener saw it at the last fire()
    errorShown,            \* the catch handler logged and showed its error message
    loadCount,             \* number of loadFromEndpoints runs on regionData
    onceData,              \* regionData after the first loadFromEndpoints run
    explorerRegions,       \* globalState[regionSettingKey], optional
    lastSelectedRegion,    \* globalState['lastSelectedRegion'], optional
    lastTouchedRegion,     \* RegionProvider.lastTouchedRegion
    credentialDefaultRegion, \* what awsContext.getCredentialDefaultRegion() returns
    op,                    \* the operation that ran last
    guessNode,             \* the node argument of the last guessDefaultRegion call
    guessed,               \* the value the last guessDefaultRegion call returned
    touchCalls,            \* the arguments of the setLastTouchedRegion calls so far
    updateArg,             \* the argument of the last updateExplorerRegions call
    recommendations,       \* argument of recordUserDecisionTelemetry
    acceptIndex,           \* argument of recordUserDecisionTelemetry
    recommendationSuggestionState, \* argument of recordUserDecisionTelemetry (optional Map)
    suppliedState,         \* recommendationSuggestionState as the caller supplied it
    events                 \* the codewhisperer_userDecision events emitted, in order

vars == <<regionData, loadState, ctorEndpoints, loadedEndpoints, fired, seenAtFire,
          errorShown, loadCount, onceData, explorerRegions, lastSelectedRegion,
          lastTouchedRegion, credentialDefaultRegion, op, guessNode, guessed,
          touchCalls, updateArg, recommendations, acceptIndex,
          recommendationSuggestionState, suppliedState, events>>

indexVars == <<regionData, loadState, ctorEndpoints, loadedEndpoints, fired, seenAtFire,
               errorShown, loadCount, onceData>>
prefVars == <<explorerRegions, lastSelectedRegion, lastTouchedRegion,
              credentialDefaultRegion, op, guessNode, guessed, touchCalls, updateArg>>
telemetryVars == <<recommendations, acceptIndex, recommendationSuggestionState,
                   suppliedState, events>>

Undefined == "undefined"

DEFAULT_REGION == "us-east-1"
DEFAULT_PARTITION == "aws"
DEFAULT_DNS_SUFFIX == "amazonaws.com"

SeqsUpTo(S, n) == UNION {[1..k -> S] : k \in 0..n}

(***************************************************************************)
(* Bounds.                                                                 *)
(***************************************************************************)
MaxPartitions == 2      \* partitions per manifest
MaxLoads == 2           \* loadFromEndpoints runs in a row
MaxExplorer == 3        \* length of the list given to updateExplorerRegions
MaxTouchCalls == 3      \* setLastTouchedRegion calls
MaxRecs == 2            \* recommendations per recordUserDecisionTelemetry call

(***************************************************************************)
(* Endpoints manifests (the Endpoints type of ./endpoints).  A partition   *)
(* declares at most one region and at most one service with at most one    *)
(* endpoint; several regions and services arise across partitions.         *)
(***************************************************************************)
RegionIds == {"us-east-1", "cn-north-1"}
ServiceIds == {"s3", "lambda", ""}
PartitionHeads == {[id |-> "aws", dnsSuffix |-> "amazonaws.com"],
                   [id |-> "aws-cn", dnsSuffix |-> "amazonaws.com.cn"]}
PartitionIds == {h.id : h \in PartitionHeads}
Region == {[id |-> "us-east-1", name |-> "US East (N. Virginia)"],
           [id |-> "cn-north-1", name |-> "China (Beijing)"]}
Endpoint == [regionId : RegionIds]
EndpointLists == {<<>>} \cup {<<e>> : e \in Endpoint}
Service == [id : ServiceIds, endpoints : EndpointLists]
Partition == {[id |-> h.id, dnsSuffix |-> h.dnsSuffix, regions |-> rs, services |-> ss] :
                h \in PartitionHeads,
                rs \in {<<>>} \cup {<<r>> : r \in Region},
                ss \in {<<>>} \cup {<<s>> : s \in Service}}
Endpoints == [partitions : SeqsUpTo(Partition, MaxPartitions)]
EmptyEndpoints == [partitions |-> <<>>]

(***************************************************************************)
(* Map<string, RegionData> as a sequence of entries.                       *)
(***************************************************************************)
MapHas(map, key) == \E i \in DOMAIN map : map[i].key = key
MapIndex(map, key) == CHOOSE i \in DOMAIN map : map[i].key = key
MapGet(map, key) == map[MapIndex(map, key)].value
MapSet(map, key, value) ==
    IF MapHas(map, key)
    THEN [map EXCEPT ![MapIndex(map, key)] = [key |-> key, value |-> value]]
    ELSE Append(map, [key |-> key, value |-> value])

(***************************************************************************)
(* loadFromEndpoints, lines 122-143.                                       *)
(***************************************************************************)
\* lines 124-131: regionData.set(region.id, {...serviceIds: []})
SetRegionKeepExisting(map, partition, region) ==
    IF MapHas(map, region.id) THEN map
    ELSE Append(map, [key |-> region.id,
                      value |-> [dnsSuffix |-> partition.dnsSuffix,
                                 partitionId |-> partition.id,
                                 region |-> region,
                                 serviceIds |-> <<>>]])

SetRegionDefaultSuffix(map, partition, region) ==
    MapSet(map, region.id, [dnsSuffix |-> DEFAULT_DNS_SUFFIX,
                            partitionId |-> partition.id,
                            region |-> region,
                            serviceIds |-> <<>>])

SetRegion(map, partition, region) ==
    MapSet(map, region.id, [dnsSuffix |-> partition.dnsSuffix,
                            partitionId |-> partition.id,
                            region |-> region,
                            serviceIds |-> <<>>])

RECURSIVE SetRegions(_, _, _)
SetRegions(map, partition, regions) ==
    IF regions = <<>> THEN map
    ELSE SetRegions(SetRegion(map, partition, Head(regions)), partition, Tail(regions))

\* lines 134-140: one endpoint of one service
AddEndpointAssign(map, service, endpoint) ==
    IF MapHas(map, endpoint.regionId)
    THEN [map EXCEPT ![MapIndex(map, endpoint.regionId)].value.serviceIds = <<service.id>>]
    ELSE map

AddEndpoint(map, service, endpoint) ==
    IF MapHas(map, endpoint.regionId)
    THEN [map EXCEPT ![MapIndex(map, endpoint.regionId)].value.serviceIds =
                         Append(@, service.id)]
    ELSE map

RECURSIVE AddEndpoints(_, _, _)
AddEndpoints(map, service, endpoints) ==
    IF endpoints = <<>> THEN map
    ELSE AddEndpoints(AddEndpoint(map, service, Head(endpoints)), service, Tail(endpoints))

RECURSIVE AddServices(_, _)
AddServices(map, services) ==
    IF services = <<>> THEN map
    ELSE AddServices(AddEndpoints(map, Head(services), Head(services).endpoints),
                     Tail(services))

\* lines 123-142: one partition: its regions, then its services
LoadPartition(map, partition) ==
    AddServices(SetRegions(map, partition, partition.regions), partition.services)

RECURSIVE LoadPartitions(_, _)
LoadPartitions(map, partitions) ==
    IF partitions = <<>> THEN map
    ELSE LoadPartitions(LoadPartition(map, Head(partitions)), Tail(partitions))

loadFromEndpoints(map, endpoints) == LoadPartitions(map, endpoints.partitions)

(***************************************************************************)
(* Queries, lines 46-82.                                                   *)
(***************************************************************************)
\* line 55: !!regionData.get(regionId)?.serviceIds.find(x => x === serviceId) ?? false
\* find returns the element found, and !! of the empty string is false
isServiceInRegionOf(map, serviceId, regionId) ==
    /\ MapHas(map, regionId)
    /\ \E i \in DOMAIN MapGet(map, regionId).serviceIds :
           MapGet(map, regionId).serviceIds[i] = serviceId
    /\ serviceId # ""

getPartitionIdOf(map, regionId) ==
    IF MapHas(map, regionId) THEN MapGet(map, regionId).partitionId ELSE Undefined

getDnsSuffixForRegionOf(map, regionId) ==
    IF MapHas(map, regionId) THEN MapGet(map, regionId).dnsSuffix ELSE Undefined

defaultRegionId ==
    IF credentialDefaultRegion = Undefined THEN DEFAULT_REGION ELSE credentialDefaultRegion

defaultPartitionIdOf(map) == getPartitionIdOf(map, defaultRegionId)

\* lines 78-82; an omitted (undefined) argument takes the default
getRegionsOf(map, partitionId) ==
    LET p == IF partitionId = Undefined THEN defaultPartitionIdOf(map) ELSE partitionId
        keep == SelectSeq(map, LAMBDA e : e.value.partitionId = p)
    IN  [i \in DOMAIN keep |-> keep[i].value.region]

isServiceInRegion(serviceId, regionId) == isServiceInRegionOf(regionData, serviceId, regionId)
getPartitionId(regionId) == getPartitionIdOf(regionData, regionId)
getDnsSuffixForRegion(regionId) == getDnsSuffixForRegionOf(regionData, regionId)
getRegions(partitionId) == getRegionsOf(regionData, partitionId)

(***************************************************************************)
(* What a caller can observe of an index: every query, for every argument.  *)
(***************************************************************************)
\* the arguments the queries are tried with: every id of a manifest and one of none
QueryPartitionIds == PartitionIds \cup {Undefined}
QueryRegionIds == RegionIds \cup {"eu-west-1"}
QueryServiceIds == ServiceIds \cup {"ec2"}

Observe(map) ==
    [regions |-> [p \in QueryPartitionIds |-> getRegionsOf(map, p)],
     partition |-> [r \in QueryRegionIds |-> getPartitionIdOf(map, r)],
     dnsSuffix |-> [r \in QueryRegionIds |-> getDnsSuffixForRegionOf(map, r)],
     service |-> [s \in QueryServiceIds, r \in QueryRegionIds |->
                     isServiceInRegionOf(map, s, r)]]

(***************************************************************************)
(* The manifest read declaratively.                                        *)
(***************************************************************************)
DeclaresRegion(partition, regionId) ==
    \E i \in DOMAIN partition.regions : partition.regions[i].id = regionId

DeclaresEndpoint(partition, serviceId, regionId) ==
    \E i \in DOMAIN partition.services :
        /\ partition.services[i].id = serviceId
        /\ \E j \in DOMAIN partition.services[i].endpoints :
               partition.services[i].endpoints[j].regionId = regionId

RegionDeclared(endpoints, regionId) ==
    \E p \in DOMAIN endpoints.partitions : DeclaresRegion(endpoints.partitions[p], regionId)

\* the position of the last partition that declares the region
LastDeclaring(endpoints, regionId) ==
    CHOOSE p \in DOMAIN endpoints.partitions :
        /\ DeclaresRegion(endpoints.partitions[p], regionId)
        /\ \A q \in DOMAIN endpoints.partitions :
               DeclaresRegion(endpoints.partitions[q], regionId) => q <= p

\* the manifest declares an endpoint of the service targeting the region, anywhere
EndpointDeclared(endpoints, serviceId, regionId) ==
    \E p \in DOMAIN endpoints.partitions :
        DeclaresEndpoint(endpoints.partitions[p], serviceId, regionId)

\* ... in a partition no later partition of which declares the region again, the
\* region being declared: the last partition that declares it, or a later one
EndpointKept(endpoints, serviceId, regionId) ==
    /\ RegionDeclared(endpoints, regionId)
    /\ \E q \in DOMAIN endpoints.partitions :
           /\ DeclaresEndpoint(endpoints.partitions[q], serviceId, regionId)
           /\ \A p \in DOMAIN endpoints.partitions :
                  p > q => ~DeclaresRegion(endpoints.partitions[p], regionId)
           /\ \E p \in DOMAIN endpoints.partitions :
                  p <= q /\ DeclaresRegion(endpoints.partitions[p], regionId)

\* map is the complete table of the manifest
CompleteTable(map, endpoints) ==
    /\ \A i, j \in DOMAIN map : map[i].key = map[j].key => i = j
    /\ \A i \in DOMAIN map : RegionDeclared(endpoints, map[i].key)
    /\ \A r \in RegionIds :
           RegionDeclared(endpoints, r) =>
               /\ MapHas(map, r)
               /\ LET last == endpoints.partitions[LastDeclaring(endpoints, r)]
                      data == MapGet(map, r)
                  IN  /\ data.partitionId = last.id
                      /\ data.dnsSuffix = last.dnsSuffix
                      /\ data.region.id = r
                      /\ \E i \in DOMAIN last.regions : last.regions[i] = data.region
                      /\ \A s \in ServiceIds :
                             (\E i \in DOMAIN data.serviceIds : data.serviceIds[i] = s)
                                 <=> EndpointKept(endpoints, s, r)

(***************************************************************************)
(* fromEndpointsProvider, lines 145-178.                                   *)
(***************************************************************************)
\* lines 150-154, the then handler: the table it leaves and what the
\* onDidChange listeners see at each fire()
ThenHandlerFireFirst(map, endpoints) ==
    [regionData |-> loadFromEndpoints(<<>>, endpoints), seen |-> << <<>> >>]

ThenHandlerClearLast(map, endpoints) ==
    [regionData |-> <<>>, seen |-> << loadFromEndpoints(map, endpoints) >>]

ThenHandler(map, endpoints) ==
    LET cleared == <<>>
        loaded == loadFromEndpoints(cleared, endpoints)
    IN  [regionData |-> loaded, seen |-> <<loaded>>]

\* lines 155-175, the catch handler: logs and shows the error, nothing else
CatchHandlerDefaults(map) ==
    [regionData |-> loadFromEndpoints(map,
         [partitions |-> << [id |-> DEFAULT_PARTITION, dnsSuffix |-> DEFAULT_DNS_SUFFIX,
                             regions |-> << [id |-> DEFAULT_REGION,
                                             name |-> "US East (N. Virginia)"] >>,
                             services |-> <<>>] >>]),
     seen |-> <<>>, errorShown |-> TRUE]

CatchHandler(map) ==
    [regionData |-> map, seen |-> <<>>, errorShown |-> TRUE]

\* endpointsProvider.load() resolves, with any Endpoints
LoadResolves ==
    /\ loadState = "pending"
    /\ \E endpoints \in Endpoints :
           LET after == ThenHandler(regionData, endpoints)
           IN  /\ regionData' = after.regionData
               /\ fired' = fired + Len(after.seen)
               /\ seenAtFire' = seenAtFire \o after.seen
               /\ loadedEndpoints' = endpoints
    /\ loadState' = "loaded"
    /\ UNCHANGED <<ctorEndpoints, errorShown, loadCount, onceData>>
    /\ UNCHANGED <<prefVars, telemetryVars>>

\* endpointsProvider.load() rejects
LoadRejects ==
    /\ loadState = "pending"
    /\ LET after == CatchHandler(regionData)
       IN  /\ regionData' = after.regionData
           /\ fired' = fired + Len(after.seen)
           /\ seenAtFire' = seenAtFire \o after.seen
           /\ errorShown' = after.errorShown
    /\ loadState' = "failed"
    /\ UNCHANGED <<ctorEndpoints, loadedEndpoints, loadCount, onceData>>
    /\ UNCHANGED <<prefVars, telemetryVars>>

PrefIdle ==
    /\ explorerRegions = <<>>
    /\ lastSelectedRegion = <<>>
    /\ lastTouchedRegion = Undefined
    /\ credentialDefaultRegion = Undefined
    /\ op = "new"
    /\ guessNode = <<>>
    /\ guessed = Undefined
    /\ touchCalls = <<>>
    /\ updateArg = <<>>

TelemetryIdle ==
    /\ recommendations = <<>>
    /\ acceptIndex = -1
    /\ recommendationSuggestionState = <<>>
    /\ suppliedState = <<>>
    /\ events = <<>>

\* lines 38-44 and 145-147: new RegionProvider(endpoints), or fromEndpointsProvider,
\* which constructs with the default { partitions: [] } and starts the load
Init ==
    /\ ctorEndpoints \in Endpoints
    /\ regionData = loadFromEndpoints(<<>>, ctorEndpoints)
    /\ loadState \in (IF ctorEndpoints = EmptyEndpoints THEN {"none", "pending"} ELSE {"none"})
    /\ loadedEndpoints = EmptyEndpoints
    /\ fired = 0
    /\ seenAtFire = <<>>
    /\ errorShown = FALSE
    /\ loadCount = 1
    /\ onceData = regionData
    /\ PrefIdle
    /\ TelemetryIdle

Next ==
    \/ LoadResolves
    \/ LoadRejects

Spec == Init /\ [][Next]_vars

\* the manifest the table was last built from
CurrentEndpoints == IF loadState = "loaded" THEN loadedEndpoints ELSE ctorEndpoints

(***************************************************************************)
(* loadFromEndpoints as a function: run it on the same table again and     *)
(* again with one manifest, never clearing.                                *)
(***************************************************************************)
InitLoad ==
    /\ ctorEndpoints \in Endpoints
    /\ regionData = <<>>
    /\ loadState = "none"
    /\ loadedEndpoints = EmptyEndpoints
    /\ fired = 0
    /\ seenAtFire = <<>>
    /\ errorShown = FALSE
    /\ loadCount = 0
    /\ onceData = <<>>
    /\ PrefIdle
    /\ TelemetryIdle

RunLoadFromEndpoints ==
    /\ loadCount < MaxLoads
    /\ regionData' = loadFromEndpoints(regionData, ctorEndpoints)
    /\ loadCount' = loadCount + 1
    /\ onceData' = IF loadCount = 0 THEN regionData' ELSE onceData
    /\ UNCHANGED <<loadState, ctorEndpoints, loadedEndpoints, fired, seenAtFire, errorShown>>
    /\ UNCHANGED <<prefVars, telemetryVars>>

NextLoad == RunLoadFromEndpoints

SpecLoad == InitLoad /\ [][NextLoad]_vars

(***************************************************************************)
(* Properties of the index.                                                *)
(***************************************************************************)
\* some region id is declared by two partitions of the manifest
RegionDeclaredTwice(endpoints) ==
    \E r \in RegionIds : \E p, q \in DOMAIN endpoints.partitions :
        /\ p < q
        /\ DeclaresRegion(endpoints.partitions[p], r)
        /\ DeclaresRegion(endpoints.partitions[q], r)

\* C2: when the load started by fromEndpointsProvider fails, every getRegions and
\* isServiceInRegion query (and every other query) answers after the failure as it
\* did before it.
C2_FailedLoadKeepsIndex ==
    [][(loadState = "pending" /\ loadState' = "failed")
          => Observe(regionData') = Observe(regionData)]_vars

C2_Witness == loadState = "failed" /\ errorShown /\ fired = 0

C4_PartitionAndSuffix ==
    \A r \in QueryRegionIds :
        IF MapHas(regionData, r)
        THEN /\ RegionDeclared(CurrentEndpoints, r)
             /\ LET last == CurrentEndpoints.partitions[LastDeclaring(CurrentEndpoints, r)]
                IN  /\ getPartitionId(r) = last.id
                    /\ getDnsSuffixForRegion(r) = last.dnsSuffix
        ELSE /\ getPartitionId(r) = Undefined
             /\ getDnsSuffixForRegion(r) = Undefined

C4_Witness ==
    /\ loadState = "loaded"
    /\ \E r, q \in RegionIds :
           /\ getPartitionId(r) = "aws-cn"
           /\ getDnsSuffixForRegion(r) = "amazonaws.com.cn"
           /\ getPartitionId(q) = Undefined

C6_FiresOnceAfterReplace ==
    /\ fired = (IF loadState = "loaded" THEN 1 ELSE 0)
    /\ Len(seenAtFire) = fired
    /\ \A i \in DOMAIN seenAtFire :
           /\ CompleteTable(seenAtFire[i], loadedEndpoints)
           /\ seenAtFire[i] = regionData

C6_Witness == loadState = "loaded" /\ fired = 1 /\ Len(seenAtFire[1]) > 0

\* C9: a second (and any further) run of loadFromEndpoints with the same manifest,
\* without clearing, leaves every query answering as after the first run.
C9_LoadIdempotent ==
    loadCount >= 2 => Observe(regionData) = Observe(onceData)

C9_Witness ==
    /\ loadCount = 2
    /\ Len(ctorEndpoints.partitions) = 2
    /\ \E s \in ServiceIds, r \in RegionIds : isServiceInRegion(s, r)
    /\ \E s \in ServiceIds, r \in RegionIds :
           EndpointDeclared(ctorEndpoints, s, r) /\ MapHas(regionData, r)
               /\ ~isServiceInRegion(s, r)

(***************************************************************************)
(* Preferences and the default-region heuristic, lines 84-120.             *)
(***************************************************************************)
ExplorerCodes == {"us-west-2", "eu-west-1"}
TouchArgs == {Undefined, "", "eu-central-1", "us-west-2"}
Nodes == {<<>>} \cup {<<[regionCode |-> c]>> : c \in {Undefined, "", "ap-south-1"}}
SelectedRegions == {<<>>} \cup {<<[id |-> i, name |-> "South America (Sao Paulo)"]>> :
                                   i \in {"", "sa-east-1"}}
CredentialRegions == {Undefined, "ca-central-1"}

\* a string in a JavaScript condition
Truthy(str) == str # Undefined /\ str # ""

\* Array.from(new Set(regions)): the first occurrence of each element, in order
RECURSIVE ArrayFromSet(_)
ArrayFromSet(regions) ==
    IF regions = <<>> THEN <<>>
    ELSE LET front == ArrayFromSet(SubSeq(regions, 1, Len(regions) - 1))
             last == regions[Len(regions)]
         IN  IF \E i \in DOMAIN front : front[i] = last THEN front ELSE Append(front, last)

\* lines 84-86: globalState.get(regionSettingKey, [])
getExplorerRegions == IF explorerRegions = <<>> THEN <<>> ELSE explorerRegions[1]

\* lines 88-90: the value stored under regionSettingKey
updateExplorerRegionsAsGiven(regions) == <<regions>>

updateExplorerRegions(regions) == <<ArrayFromSet(regions)>>

\* lines 97-114
guessDefaultRegionTouchedFirst(node) ==
    IF node # <<>> /\ Truthy(node[1].regionCode) THEN node[1].regionCode
    ELSE IF Truthy(lastTouchedRegion) THEN lastTouchedRegion
    ELSE IF Len(getExplorerRegions) = 1 THEN getExplorerRegions[1]
    ELSE IF lastSelectedRegion # <<>> /\ Truthy(lastSelectedRegion[1].id)
         THEN lastSelectedRegion[1].id
    ELSE defaultRegionId

guessDefaultRegion(node) ==
    IF node # <<>> /\ Truthy(node[1].regionCode) THEN node[1].regionCode
    ELSE IF Len(getExplorerRegions) = 1 THEN getExplorerRegions[1]
    ELSE IF Truthy(lastTouchedRegion) THEN lastTouchedRegion
    ELSE IF lastSelectedRegion # <<>> /\ Truthy(lastSelectedRegion[1].id)
         THEN lastSelectedRegion[1].id
    ELSE defaultRegionId

\* lines 116-120: the new value of lastTouchedRegion
setLastTouchedRegionAlways(current, region) == region

setLastTouchedRegion(current, region) == IF Truthy(region) THEN region ELSE current

IndexIdle ==
    /\ regionData = <<>>
    /\ loadState = "none"
    /\ ctorEndpoints = EmptyEndpoints
    /\ loadedEndpoints = EmptyEndpoints
    /\ fired = 0
    /\ seenAtFire = <<>>
    /\ errorShown = FALSE
    /\ loadCount = 1
    /\ onceData = <<>>

\* a new RegionProvider over a globalState that holds no explorer regions yet
InitPrefs ==
    /\ IndexIdle
    /\ TelemetryIdle
    /\ explorerRegions = <<>>
    /\ lastSelectedRegion \in SelectedRegions
    /\ lastTouchedRegion = Undefined
    /\ credentialDefaultRegion \in CredentialRegions
    /\ op = "new"
    /\ guessNode = <<>>
    /\ guessed = Undefined
    /\ touchCalls = <<>>
    /\ updateArg = <<>>

CallUpdateExplorerRegions ==
    /\ \E regions \in SeqsUpTo(ExplorerCodes, MaxExplorer) :
           /\ explorerRegions' = updateExplorerRegions(regions)
           /\ updateArg' = regions
    /\ op' = "updateExplorerRegions"
    /\ guessNode' = <<>>
    /\ guessed' = Undefined
    /\ UNCHANGED <<lastSelectedRegion, lastTouchedRegion, credentialDefaultRegion, touchCalls>>
    /\ UNCHANGED <<indexVars, telemetryVars>>

CallSetLastTouchedRegion ==
    /\ Len(touchCalls) < MaxTouchCalls
    /\ \E region \in TouchArgs :
           /\ lastTouchedRegion' = setLastTouchedRegion(lastTouchedRegion, region)
           /\ touchCalls' = Append(touchCalls, region)
    /\ op' = "setLastTouchedRegion"
    /\ guessNode' = <<>>
    /\ guessed' = Undefined
    /\ updateArg' = <<>>
    /\ UNCHANGED <<explorerRegions, lastSelectedRegion, credentialDefaultRegion>>
    /\ UNCHANGED <<indexVars, telemetryVars>>

CallGuessDefaultRegion ==
    /\ \E node \in Nodes :
           /\ guessed' = guessDefaultRegion(node)
           /\ guessNode' = node
    /\ op' = "guessDefaultRegion"
    /\ updateArg' = <<>>
    /\ UNCHANGED <<explorerRegions, lastSelectedRegion, lastTouchedRegion,
                   credentialDefaultRegion, touchCalls>>
    /\ UNCHANGED <<indexVars, telemetryVars>>

NextPrefs ==
    \/ CallUpdateExplorerRegions
    \/ CallSetLastTouchedRegion
    \/ CallGuessDefaultRegion

SpecPrefs == InitPrefs /\ [][NextPrefs]_vars

\* the argument of the most recent call that carried a region, Undefined if none did
RECURSIVE LastCarried(_)
LastCarried(calls) ==
    IF calls = <<>> THEN Undefined
    ELSE IF calls[Len(calls)] \notin {Undefined, ""} THEN calls[Len(calls)]
    ELSE LastCarried(SubSeq(calls, 1, Len(calls) - 1))

\* C1: guessDefaultRegion returns the node's non-empty regionCode; else the only
\* explorer region; else the last-touched region; else the non-empty id of the
\* persisted lastSelectedRegion; else the credential default, or us-east-1 without one.
C1_GuessPriority ==
    op = "guessDefaultRegion" =>
        LET hint == guessNode # <<>> /\ guessNode[1].regionCode \notin {Undefined, ""}
            single == Len(getExplorerRegions) = 1
            touched == lastTouchedRegion # Undefined
            selected == lastSelectedRegion # <<>> /\ lastSelectedRegion[1].id # ""
        IN  /\ hint => guessed = guessNode[1].regionCode
            /\ (~hint /\ single) => guessed = getExplorerRegions[1]
            /\ (~hint /\ ~single /\ touched) => guessed = lastTouchedRegion
            /\ (~hint /\ ~single /\ ~touched /\ selected) => guessed = lastSelectedRegion[1].id
            /\ (~hint /\ ~single /\ ~touched /\ ~selected) =>
                   guessed = (IF credentialDefaultRegion = Undefined
                              THEN "us-east-1" ELSE credentialDefaultRegion)

C1_Witness ==
    /\ op = "guessDefaultRegion"
    /\ guessNode = <<[regionCode |-> ""]>>
    /\ Len(getExplorerRegions) = 1
    /\ lastTouchedRegion = "eu-central-1"
    /\ lastSelectedRegion # <<>>
    /\ guessed = getExplorerRegions[1]

\* C7: the last-touched region is the argument of the most recent
\* setLastTouchedRegion call that carried a region: a call without one changes
\* nothing, and a value once set is never cleared.
C7_LastTouchedKept ==
    /\ lastTouchedRegion = LastCarried(touchCalls)
    /\ (\E i \in DOMAIN touchCalls : touchCalls[i] \notin {Undefined, ""})
           => lastTouchedRegion # Undefined

C7_Witness ==
    /\ Len(touchCalls) = 2
    /\ touchCalls[1] = "eu-central-1"
    /\ touchCalls[2] = Undefined
    /\ lastTouchedRegion = "eu-central-1"

\* C8: after updateExplorerRegions(regions), getExplorerRegions() has no repeated
\* element and the same set of elements as regions; with nothing persisted it is empty.
C8_ExplorerRegionsDeduplicated ==
    /\ op = "updateExplorerRegions" =>
           /\ \A i, j \in DOMAIN getExplorerRegions :
                  getExplorerRegions[i] = getExplorerRegions[j] => i = j
           /\ {getExplorerRegions[i] : i \in DOMAIN getExplorerRegions}
                  = {updateArg[i] : i \in DOMAIN updateArg}
    /\ explorerRegions = <<>> => getExplorerRegions = <<>>

C8_Witness ==
    /\ op = "updateExplorerRegions"
    /\ updateArg = <<"us-west-2", "us-west-2", "eu-west-1">>
    /\ Len(getExplorerRegions) = 2

(***************************************************************************)
(* TelemetryHelper.recordUserDecisionTelemetry, part_000 lines 84-135.     *)
(* A recommendation is its content; an event is its suggestion index and   *)
(* its suggestion state.  A Map<number, string> is a function from the     *)
(* indices to the strings, Undefined where the map has no entry.           *)
(***************************************************************************)
Contents == {"", "x = 1"}
RecommendationsList == SeqsUpTo([content : Contents], MaxRecs)
Indices == 0..(MaxRecs - 1)
EntryStates == {"Showed", "Empty", "Filter", "Discard", "Pending"}
SuggestionStates == {<<>>} \cup {<<m>> : m \in [Indices -> EntryStates \cup {Undefined}]}

\* recommendationSuggestionState?.get(i)
StateGet(stateMap, i) ==
    IF stateMap = <<>> \/ i \notin Indices THEN Undefined ELSE stateMap[1][i]

\* recommendationSuggestionState?.set(i, value)
StateSet(stateMap, i, value) ==
    IF stateMap = <<>> THEN stateMap ELSE <<[stateMap[1] EXCEPT ![i] = value]>>

\* lines 120-135
getSuggestionStateIgnoringMap(i, accept, stateMap) ==
    LET state == StateGet(stateMap, i)
    IN  IF Truthy(state) /\ state \in {"Empty", "Filter", "Discard"} THEN state
        ELSE IF accept = -1 THEN "Reject"
        ELSE IF i = accept THEN "Accept"
        ELSE "Ignore"

getSuggestionState(i, accept, stateMap) ==
    LET state == StateGet(stateMap, i)
    IN  IF Truthy(state) /\ state \in {"Empty", "Filter", "Discard"} THEN state
        ELSE IF stateMap # <<>> /\ StateGet(stateMap, i) # "Showed" THEN "Unseen"
        ELSE IF accept = -1 THEN "Reject"
        ELSE IF i = accept THEN "Accept"
        ELSE "Ignore"

\* lines 95-117: the callback of forEach for the recommendation at index i;
\* acc is the state map and the events emitted so far
RecordOne(acc, recs, i, accept) ==
    LET stateMap == IF Len(recs[i + 1].content) = 0
                    THEN StateSet(acc.stateMap, i, "Empty")
                    ELSE acc.stateMap
    IN  [stateMap |-> stateMap,
         events |-> Append(acc.events,
                           [codewhispererSuggestionIndex |-> i,
                            codewhispererSuggestionState |->
                                getSuggestionState(i, accept, stateMap)])]

\* recommendations.forEach, from index i on
RECURSIVE RecordFrom(_, _, _, _)
RecordFrom(acc, recs, i, accept) ==
    IF i >= Len(recs) THEN acc
    ELSE RecordFrom(RecordOne(acc, recs, i, accept), recs, i + 1, accept)

InitTelemetry ==
    /\ IndexIdle
    /\ PrefIdle
    /\ recommendations \in RecommendationsList
    /\ acceptIndex \in -1..(MaxRecs - 1)
    /\ recommendationSuggestionState \in SuggestionStates
    /\ suppliedState = recommendationSuggestionState
    /\ events = <<>>

\* lines 84-118
recordUserDecisionTelemetry ==
    /\ op = "new"
    /\ LET after == RecordFrom([stateMap |-> recommendationSuggestionState, events |-> <<>>],
                               recommendations, 0, acceptIndex)
       IN  /\ events' = after.events
           /\ recommendationSuggestionState' = after.stateMap
    /\ op' = "recordUserDecisionTelemetry"
    /\ UNCHANGED <<recommendations, acceptIndex, suppliedState>>
    /\ UNCHANGED <<explorerRegions, lastSelectedRegion, lastTouchedRegion,
                   credentialDefaultRegion, guessNode, guessed, touchCalls, updateArg>>
    /\ UNCHANGED indexVars

NextTelemetry == recordUserDecisionTelemetry

SpecTelemetry == InitTelemetry /\ [][NextTelemetry]_vars

\* the state the event for index i reports
Reported(i) == events[i + 1].codewhispererSuggestionState

\* one event per recommendation, in ascending index order, at most one of them Accept
OneEventEach ==
    /\ Len(events) = Len(recommendations)
    /\ \A k \in DOMAIN events : events[k].codewhispererSuggestionIndex = k - 1
    /\ \A j, k \in DOMAIN events :
           (events[j].codewhispererSuggestionState = "Accept"
              /\ events[k].codewhispererSuggestionState = "Accept") => j = k

\* what the claim says of index i, read off the state map the caller supplied
StateAsClaimed(i) ==
    LET entry == StateGet(suppliedState, i)
    IN  /\ Reported(i) = "Accept" =>
               /\ i = acceptIndex
               /\ acceptIndex # -1
               /\ (suppliedState = <<>> \/ entry = "Showed")
        /\ entry \in {"Empty", "Filter", "Discard"} => Reported(i) = entry
        /\ (suppliedState # <<>> /\ entry \notin {"Showed", "Empty", "Filter", "Discard"})
               => Reported(i) = "Unseen"
        /\ (acceptIndex = -1 /\ (suppliedState = <<>> \/ entry = "Showed"))
               => Reported(i) = "Reject"

\* C10 as claimed: one event per recommendation in ascending index order, at most
\* one Accept, and each index reported as its entry in the supplied map says.
C10_AsClaimed ==
    op = "recordUserDecisionTelemetry" =>
        /\ OneEventEach
        /\ \A i \in 0..(Len(recommendations) - 1) : StateAsClaimed(i)

\* C10 amended: the same, except that a recommendation with empty content is
\* reported 'Empty' whenever a state map is supplied, whatever its entry was; the
\* claim's rules for the map entries hold for the recommendations with content and,
\* without a map, for all of them.
C10_EmptyContentReportedEmpty ==
    op = "recordUserDecisionTelemetry" =>
        /\ OneEventEach
        /\ \A i \in 0..(Len(recommendations) - 1) :
               IF suppliedState # <<>> /\ recommendations[i + 1].content = ""
               THEN Reported(i) = "Empty"
               ELSE StateAsClaimed(i)

C10_Witness ==
    /\ op = "recordUserDecisionTelemetry"
    /\ Len(events) = 2
    /\ recommendations[1].content = ""
    /\ StateGet(suppliedState, 0) = "Filter"
    /\ Reported(0) = "Empty"
    /\ Reported(1) = "Accept"

====
